---- MODULE Spec2Model ----
(***************************************************************************)
(* The wiresteward agent (agent.go): construction of an Agent for a        *)
(* WireGuard device (NewAgent), lease negotiation (GetNewWgLease), route   *)
(* installation (addRoutesForAllowedIps) and Stop.                         *)
(*                                                                         *)
(* The key store (getKeys, setPrivateKey), the link handle (EnsureLinkUp,  *)
(* UpdateIP, AddRoute), the tunnel device (startTunDevice, Run) and        *)
(* newPeerConfig live in files that are not part of the sources at hand;   *)
(* they are modelled from the written specification and every one of their *)
(* calls may fail.                                                         *)
(***************************************************************************)
EXTENDS Integers, Sequences, FiniteSets, TLC

\* ------------------------------------------------------------------ bounds

\* Most entries of an AllowedIPs list the lease server sends.
MaxEntries == 2

\* Number of Stop() calls made on one agent.
MaxStops == 2

\* ------------------------------------------------------------- value sets

\* agent.go:55, the base64 text of the all-zero key.
Sentinel == "AAAAAAAAAAAAAAAAAAAAAAAAAAAAAAAAAAAAAAAAAAA="

\* Private keys wgtypes.GeneratePrivateKey can return (clamped, never zero).
NewKeys == {"k1", "k2"}

\* Private key a device can hold before the agent first runs.
DeviceKeys == {Sentinel, "k0"}

\* The public key the key store reports for a private key.
PubOf(k) ==
  CASE k = Sentinel -> "pub(zero)"
    [] k = "k0" -> "pub(k0)"
    [] k = "k1" -> "pub(k1)"
    [] k = "k2" -> "pub(k2)"
    [] OTHER -> ""

\* Text is a sequence of characters.  "x" and "y" each stand for one
\* well-formed CIDR literal, "," is the separator of AllowedIPs and " " is
\* white space.
\* The entries a server writes into AllowedIPs: a CIDR literal, one after
\* white space, or nothing.
Entries == {<<>>, <<"x">>, <<"y">>, <<" ", "x">>}

\* The texts of at most n entries joined by ",".
RECURSIVE Joined(_)
Joined(n) ==
  IF n = 1 THEN Entries
  ELSE Joined(n - 1) \cup {s \o <<",">> \o e : s \in Joined(n - 1), e \in Entries}

\* netlink.ParseIPNet: the parsed network of a CIDR literal, or an error.
ParseIPNet(s) ==
  IF s = <<"x">> THEN [ok |-> TRUE, net |-> "10.0.1.0/24"]
  ELSE IF s = <<"y">> THEN [ok |-> TRUE, net |-> "10.0.2.0/24"]
  ELSE [ok |-> FALSE, net |-> "invalid"]

\* strings.Index for a one-character separator: 0 when absent.
Index(s, c) ==
  IF \E i \in 1..Len(s) : s[i] = c
  THEN CHOOSE i \in 1..Len(s) : s[i] = c /\ \A j \in 1..(i - 1) : s[j] # c
  ELSE 0

\* strings.Split(s, sep): cut at every separator, keep every piece.
RECURSIVE Split(_, _)
Split(s, c) ==
  LET m == Index(s, c) IN
  IF m = 0 THEN <<s>>
  ELSE <<SubSeq(s, 1, m - 1)>> \o Split(SubSeq(s, m + 1, Len(s)), c)

\* ------------------------------------------------------------------ state

VARIABLES
  pc,            \* position of NewAgent
  err,           \* error NewAgent returned ("nil" for none, "none" before the return)
  agent,         \* the Agent struct
  keyAtStart,    \* the device's private key when NewAgent was entered
  steps,         \* the calls this NewAgent has made, in order, with their outcome
  devKey,        \* the device's private key (key store)
  linkUp,        \* administrative state of the link
  addrs,         \* addresses assigned to the device
  routes,        \* routes installed via the device
  run,           \* the goroutine of tundev.Run
  stopBuf,       \* values held in the buffer of the stop channel
  stopBlocked,   \* Stop() calls blocked in the send on a.stop
  stopReturned,  \* Stop() calls that returned
  stopsReceived, \* stop notifications the run loop received
  lease,         \* per caller: the GetNewWgLease / addRoutesForAllowedIps call
  sent           \* bodies of the lease requests sent by this agent

vars == <<pc, err, agent, keyAtStart, steps, devKey, linkUp,
          addrs, routes, run, stopBuf, stopBlocked, stopReturned, stopsReceived,
          lease, sent>>

devVars == <<devKey, linkUp, addrs, routes>>
stopVars == <<run, stopBuf, stopBlocked, stopReturned, stopsReceived>>
leaseVars == <<lease, sent>>

\* &Agent{device: deviceName, netlinkHandle: ...}: the other fields are zero.
NewAgentStruct == [pubKey |-> "", privKey |-> "", stop |-> FALSE, tundev |-> FALSE]

\* &Response{}
ZeroResponse == [IP |-> <<>>, AllowedIPs |-> <<>>, PubKey |-> "", Endpoint |-> ""]

\* &wgtypes.PeerConfig{}
ZeroPeer == [PublicKey |-> "", PresharedKey |-> "", Endpoint |-> "", AllowedIPs |-> <<>>]

NoReturn == [peer |-> ZeroPeer, allowed_ips |-> <<>>, err |-> "none"]

\* addRoutesForAllowedIps not called: its state, the number of entries it has
\* gone through, and the entries it tried with the outcome of each.
NoRoutes == [st |-> "none", i |-> 0, tried |-> <<>>]

\* One caller's call: its position, the status and the Response received,
\* the kernel calls GetNewWgLease made, what it returned, the progress of
\* addRoutesForAllowedIps on the returned list, and the callers whose lease
\* was granted, and whose address was installed, before this call's.
IdleCall == [pc |-> "idle", status |-> 0, resp |-> ZeroResponse, ret |-> NoReturn,
             calls |-> <<>>, rt |-> NoRoutes, grantedAfter |-> {},
             installedAfter |-> {}]

Callers == {"c1"}

Init ==
  /\ pc = "start"
  /\ err = "none"
  /\ agent = NewAgentStruct
  /\ devKey \in DeviceKeys
  /\ keyAtStart = devKey
  /\ steps = <<>>
  /\ linkUp = FALSE
  /\ addrs = {}
  /\ routes = {}
  /\ run = "none"
  /\ stopBuf = 0
  /\ stopBlocked = 0
  /\ stopReturned = 0
  /\ stopsReceived = 0
  /\ lease = [c \in Callers |-> IdleCall]
  /\ sent = {}

\* ------------------------------------------------------------ NewAgent

Step(op, ok) == [op |-> op, ok |-> ok]

\* Variant: the run loop is not launched.
RunNotLaunched == "none"

\* agent.go:41, go a.tundev.Run()
RunAfterLaunch == "running"

\* Variant: the error of startTunDevice is ignored.
AfterStartTunIgnoreErr(ok) == "linkup"

\* agent.go:33-36, the error of startTunDevice ends NewAgent.
AfterStartTun(ok) == IF ok THEN "linkup" ELSE "done"

\* Variant: the error of EnsureLinkUp is ignored.
AfterLinkUpIgnoreErr(ok) == "getkeys"

\* agent.go:44-46, the error of EnsureLinkUp ends NewAgent.
AfterLinkUp(ok) == IF ok THEN "getkeys" ELSE "done"

\* Variant: the private key is compared with the empty text.
NeedsKeyEmpty(privKey) == privKey = ""

\* Variant: the comparison is inverted.
NeedsKeyInverted(privKey) == privKey # Sentinel

\* agent.go:55, a key is generated only for the empty-key sentinel.
NeedsKey(privKey) == privKey = Sentinel

\* agent.go:49-55, the error of getKeys ends NewAgent.
AfterGetKeys(ok, privKey) ==
  IF ~ok THEN "done" ELSE IF NeedsKey(privKey) THEN "genkey" ELSE "fetchkeys"

\* agent.go:56-59
AfterGenerate(ok) == IF ok THEN "setkey" ELSE "done"

\* agent.go:61-63
AfterSetPrivKey(ok) == IF ok THEN "fetchkeys" ELSE "done"

\* getKeys(device): the device's key pair as the key store holds it.
getKeys(ok, key) ==
  IF ok THEN [pub |-> PubOf(key), priv |-> key]
  ELSE [pub |-> "", priv |-> ""]

\* setPrivateKey(device, key): the device's private key afterwards.
setPrivateKey(ok, old, key) == IF ok THEN key ELSE old

\* agent.go:32-41: make the stop channel, create the device, keep both on
\* the agent and launch the run loop.
StartTunDevice ==
  /\ pc = "start"
  /\ \E ok \in BOOLEAN :
       LET next == AfterStartTun(ok) IN
       /\ pc' = next
       /\ steps' = Append(steps, Step("startTunDevice", ok))
       /\ IF next = "done"
          THEN /\ err' = "DeviceStartError"
               /\ UNCHANGED <<agent, run>>
          ELSE /\ err' = err
               /\ agent' = [agent EXCEPT !.stop = TRUE, !.tundev = ok]
               /\ run' = RunAfterLaunch
  /\ UNCHANGED <<keyAtStart, devVars, stopBuf, stopBlocked, stopReturned,
                 stopsReceived, leaseVars>>

\* agent.go:44-46
EnsureLinkUp ==
  /\ pc = "linkup"
  /\ \E ok \in BOOLEAN :
       /\ pc' = AfterLinkUp(ok)
       /\ steps' = Append(steps, Step("EnsureLinkUp", ok))
       /\ linkUp' = (linkUp \/ ok)
       /\ err' = IF pc' = "done" THEN "LinkStateError" ELSE err
  /\ UNCHANGED <<agent, keyAtStart, devKey, addrs, routes, stopVars, leaseVars>>

\* agent.go:49-55: read the private key and compare it with the sentinel.
ReadKeys ==
  /\ pc = "getkeys"
  /\ \E ok \in BOOLEAN :
       /\ pc' = AfterGetKeys(ok, getKeys(ok, devKey).priv)
       /\ steps' = Append(steps, Step("getKeys", ok))
       /\ err' = IF pc' = "done" THEN "KeyRetrievalError" ELSE err
  /\ UNCHANGED <<agent, keyAtStart, devVars, stopVars, leaseVars>>

\* agent.go:56-60
GeneratePrivateKey ==
  /\ pc = "genkey"
  /\ \E ok \in BOOLEAN, newKey \in NewKeys :
       /\ pc' = AfterGenerate(ok)
       /\ steps' = Append(steps, Step("GeneratePrivateKey", ok))
       /\ IF pc' = "done"
          THEN err' = "KeyGenerationError" /\ agent' = agent
          ELSE err' = err /\ agent' = [agent EXCEPT !.privKey = newKey]
  /\ UNCHANGED <<keyAtStart, devVars, stopVars, leaseVars>>

\* agent.go:61-63 and 120-122
SetPrivKey ==
  /\ pc = "setkey"
  /\ \E ok \in BOOLEAN :
       /\ pc' = AfterSetPrivKey(ok)
       /\ steps' = Append(steps, Step("setPrivateKey", ok))
       /\ devKey' = setPrivateKey(ok, devKey, agent.privKey)
       /\ err' = IF pc' = "done" THEN "KeyInstallError" ELSE err
  /\ UNCHANGED <<agent, keyAtStart, linkUp, addrs, routes, stopVars, leaseVars>>

\* Variant: the keys read back are not saved on the agent.
SavedKeysNotFetched(a, k) == a

\* agent.go:67, a.pubKey, a.privKey, err = getKeys(deviceName)
SavedKeys(a, k) == [a EXCEPT !.pubKey = k.pub, !.privKey = k.priv]

\* agent.go:67-72: the keys saved on the agent are those read back.
FetchKeys ==
  /\ pc = "fetchkeys"
  /\ \E ok \in BOOLEAN :
       LET k == getKeys(ok, devKey) IN
       /\ agent' = SavedKeys(agent, k)
       /\ steps' = Append(steps, Step("getKeys", ok))
       /\ err' = IF ok THEN "nil" ELSE "KeyRetrievalError"
       /\ pc' = "done"
  /\ UNCHANGED <<keyAtStart, devVars, stopVars, leaseVars>>

\* The agent process is started again on the same device: NewAgent runs on
\* a fresh Agent, the device keeps its key, its addresses and its routes.
Restart ==
  /\ pc = "done"
  /\ pc' = "start"
  /\ err' = "none"
  /\ agent' = NewAgentStruct
  /\ keyAtStart' = devKey
  /\ steps' = <<>>
  /\ run' = "none"
  /\ stopBuf' = 0
  /\ stopBlocked' = 0
  /\ stopReturned' = 0
  /\ stopsReceived' = 0
  /\ lease' = [c \in DOMAIN lease |-> IdleCall]
  /\ sent' = {}
  /\ UNCHANGED devVars

\* ---------------------------------------------------------- Stop and Run

\* Variant: the stop channel has room for one value.
StopChanBuffered == 0 + 1

\* agent.go:32, make(chan bool): the capacity of the stop channel.
StopChanCap == 0

\* agent.go:182-184: a.stop <- true.  The send returns at once when the
\* channel has room and waits for a receiver otherwise; the channel of
\* agent.go:32 has none, and a nil channel (startTunDevice failed) has
\* neither room nor receiver.
StopCall ==
  /\ pc = "done"
  /\ stopBlocked + stopReturned < MaxStops
  /\ IF agent.stop /\ stopBuf < StopChanCap
     THEN /\ stopBuf' = stopBuf + 1
          /\ stopReturned' = stopReturned + 1
          /\ stopBlocked' = stopBlocked
     ELSE /\ stopBlocked' = stopBlocked + 1
          /\ UNCHANGED <<stopBuf, stopReturned>>
  /\ UNCHANGED <<pc, err, agent, keyAtStart, steps, devVars, run, stopsReceived,
                 leaseVars>>

\* tundev.Run observes the stop signal: it takes a value from the channel,
\* from its buffer or, the channel having none, straight from one blocked
\* Stop(), which returns.
RunReceive ==
  /\ run = "running"
  /\ agent.stop
  /\ stopBuf + stopBlocked > 0
  /\ IF stopBuf > 0
     THEN UNCHANGED <<stopBlocked, stopReturned>> /\ stopBuf' = stopBuf - 1
     ELSE /\ stopBlocked' = stopBlocked - 1
          /\ stopReturned' = stopReturned + 1
          /\ stopBuf' = stopBuf
  /\ stopsReceived' = stopsReceived + 1
  /\ run' = "stopping"
  /\ UNCHANGED <<pc, err, agent, keyAtStart, steps, devVars, leaseVars>>

\* tundev.Run returns.
RunExit ==
  /\ run = "stopping"
  /\ run' = "exited"
  /\ UNCHANGED <<pc, err, agent, keyAtStart, steps, devVars, stopBuf,
                 stopBlocked, stopReturned, stopsReceived, leaseVars>>

\* -------------------------------------------------------- GetNewWgLease

HttpStatuses == {200, 404, 500}

\* The IP a lease response can carry: two CIDR literals and the empty text.
IPInputs == {<<"x">>, <<"y">>, <<>>}

\* The peers a lease server can announce: its public key and its endpoint,
\* which may be empty.
Peers ==
  {[PubKey |-> "abc=", Endpoint |-> "1.2.3.4:51820"],
   [PubKey |-> "def=", Endpoint |-> ""]}

\* The Response a JSON body decodes to.
Bodies ==
  {[IP |-> ip, AllowedIPs |-> a, PubKey |-> p.PubKey, Endpoint |-> p.Endpoint] :
     ip \in IPInputs, a \in Joined(MaxEntries), p \in Peers}

\* What the lease server and the transport can answer to one POST: no answer
\* at all, a status with an unreadable or undecodable body, or a status with
\* a body (a rejection can carry a body as well).
Replies ==
  {[kind |-> "transport", status |-> 0, body |-> ZeroResponse]}
    \cup [kind : {"unreadable", "malformed"}, status : {200}, body : {ZeroResponse}]
    \cup [kind : {"lease"}, status : {200}, body : Bodies]
    \cup [kind : {"lease"}, status : HttpStatuses \ {200},
          body : {b \in Bodies : b.AllowedIPs = <<"x">> /\ b.PubKey = "abc="}]

\* Variant: the request carries the private key.
RequestBodyPriv(a) == [pubKey |-> a.privKey]

\* agent.go:77, json.Marshal(&Request{PubKey: a.pubKey})
RequestBody(a) == [pubKey |-> a.pubKey]

\* Variant: only server errors are rejected.
StatusOKBelow500(status) == status < 500

\* agent.go:100
StatusOK(status) == status = 200

\* agent.go:94-116: what requestWgConfig returns for a reply.
requestWgConfig(reply) ==
  IF reply.kind = "transport" THEN [resp |-> ZeroResponse, err |-> "transport"]
  ELSE IF ~StatusOK(reply.status) THEN [resp |-> ZeroResponse, err |-> "status"]
  ELSE IF reply.kind = "unreadable" THEN [resp |-> ZeroResponse, err |-> "read"]
  ELSE IF reply.kind = "malformed" THEN [resp |-> ZeroResponse, err |-> "decode"]
  ELSE [resp |-> reply.body, err |-> "nil"]

\* agent.go:166,170,176: the error return of GetNewWgLease.
ErrorReturn(e) == [peer |-> ZeroPeer, allowed_ips |-> <<>>, err |-> e]

\* Variant: empty entries are dropped.
SplitAllowedNonEmpty(s) == SelectSeq(Split(s, ","), LAMBDA e : e # <<>>)

\* agent.go:173
SplitAllowed(s) == Split(s, ",")

\* newPeerConfig(publicKey, presharedKey, endpoint, allowedIPs)
newPeerConfig(publicKey, presharedKey, endpoint, allowedIPs) ==
  [PublicKey |-> publicKey, PresharedKey |-> presharedKey,
   Endpoint |-> endpoint, AllowedIPs |-> allowedIPs]

\* agent.go:174
PeerFor(resp, allowed_ips) ==
  newPeerConfig(resp.PubKey, "", resp.Endpoint, allowed_ips)

\* Variant: the first allowed IP is handed to addIpToDev.
OfferedIPFromAllowed(resp) == Split(resp.AllowedIPs, ",")[1]

\* agent.go:169: the text handed to addIpToDev.
OfferedIP(resp) == resp.IP

KernelCall(op, net, ok) == [op |-> op, net |-> net, ok |-> ok]

\* netlinkHandle.UpdateIP(device, ip): the addresses of the device afterwards.
UpdateIP(ok, as, net) == IF ok THEN as \cup {net} ELSE as

\* netlinkHandle.AddRoute(device, dst): the routes via the device afterwards.
AddRoute(ok, rs, net) == IF ok THEN rs \cup {net} ELSE rs

\* The caller uses an agent only when NewAgent returned no error.
Usable == pc = "done" /\ err = "nil"

\* Variant: a call waits while another call is inside GetNewWgLease.
MayEnterLocked(l, c) == \A d \in DOMAIN l \ {c} : l[d].pc \notin {"addIp", "peer"}

\* agent.go:163-164, GetNewWgLease takes no lock: a call starts whatever
\* the other calls are doing.
MayEnter(l, c) == TRUE

\* The other callers whose call holds a granted lease.
GrantedCalls(l, c) == {d \in DOMAIN l \ {c} : l[d].resp # ZeroResponse}

\* The other callers whose call has installed its address.
InstalledCalls(l, c) ==
  {d \in DOMAIN l \ {c} : l[d].calls # <<>> /\ l[d].calls[1].ok}

\* agent.go:164-167 with requestWgConfig (75-118), the lease server and the
\* transport answering with one of replies.
LeaseRequestFrom(c, replies) ==
  /\ Usable
  /\ lease[c].pc = "idle"
  /\ MayEnter(lease, c)
  /\ \E reply \in replies :
       LET r == requestWgConfig(reply) IN
       /\ sent' = sent \cup {RequestBody(agent)}
       /\ lease' = [lease EXCEPT ![c] =
            IF r.err # "nil"
            THEN [IdleCall EXCEPT !.pc = "returned", !.status = reply.status,
                                  !.ret = ErrorReturn(r.err)]
            ELSE [IdleCall EXCEPT !.pc = "addIp", !.status = reply.status,
                                  !.resp = r.resp,
                                  !.grantedAfter = GrantedCalls(lease, c)]]
  /\ UNCHANGED <<pc, err, agent, keyAtStart, steps, devVars, stopVars>>

LeaseRequest(c) == LeaseRequestFrom(c, Replies)

\* Variant: the error of ParseIPNet is ignored.
IpParseErrIgnored(devIP) == FALSE

\* agent.go:125-128, the error of ParseIPNet ends addIpToDev.
IpParseFailed(devIP) == ~devIP.ok

\* Variant: the address is taken off the device when a later step fails.
RollbackAddr(as, net) == as \ {net}

\* agent.go:175-177, the error return after addIpToDev: the addresses of
\* the device afterwards.
AfterPeerError(as, net) == as

\* agent.go:169-171 with addIpToDev (124-138).
LeaseAddIp(c) ==
  /\ lease[c].pc = "addIp"
  /\ LET devIP == ParseIPNet(OfferedIP(lease[c].resp)) IN
     IF IpParseFailed(devIP)
     THEN /\ lease' = [lease EXCEPT ![c].pc = "returned", ![c].ret = ErrorReturn("parse")]
          /\ addrs' = addrs
     ELSE \E ok \in BOOLEAN :
            /\ addrs' = UpdateIP(ok, addrs, devIP.net)
            /\ lease' = [lease EXCEPT
                 ![c].calls = Append(@, KernelCall("UpdateIP", devIP.net, ok)),
                 ![c].installedAfter = IF ok THEN InstalledCalls(lease, c) ELSE @,
                 ![c].pc = IF ok THEN "peer" ELSE "returned",
                 ![c].ret = IF ok THEN @ ELSE ErrorReturn("link")]
  /\ UNCHANGED <<pc, err, agent, keyAtStart, steps, devKey, linkUp, routes,
                 stopVars, sent>>

\* agent.go:173-179
LeasePeer(c) ==
  /\ lease[c].pc = "peer"
  /\ LET allowed_ips == SplitAllowed(lease[c].resp.AllowedIPs)
         devIP == ParseIPNet(OfferedIP(lease[c].resp))
     IN
     \E ok \in BOOLEAN :
       /\ lease' = [lease EXCEPT
            ![c].pc = "returned",
            ![c].ret = IF ok
                       THEN [peer |-> PeerFor(lease[c].resp, allowed_ips),
                             allowed_ips |-> allowed_ips, err |-> "nil"]
                       ELSE ErrorReturn("peer")]
       /\ addrs' = IF ok THEN addrs ELSE AfterPeerError(addrs, devIP.net)
  /\ UNCHANGED <<pc, err, agent, keyAtStart, steps, devKey, linkUp, routes,
                 stopVars, sent>>

\* ------------------------------------------------ addRoutesForAllowedIps

\* The caller hands the list GetNewWgLease returned to
\* addRoutesForAllowedIps (agent.go:140).
AddRoutesCall(c) ==
  /\ lease[c].pc = "returned"
  /\ lease[c].ret.err = "nil"
  /\ lease[c].rt.st = "none"
  /\ lease' = [lease EXCEPT ![c].pc = "routes", ![c].rt = [NoRoutes EXCEPT !.st = "run"]]
  /\ UNCHANGED <<pc, err, agent, keyAtStart, steps, devVars, stopVars, sent>>

\* Variant: the loop turns to the first entry every time.
RangeFirst(allowed_ips, i) == allowed_ips[1]

\* agent.go:141, the entry the loop turns to after i entries.
RangeEntry(allowed_ips, i) == allowed_ips[i + 1]

\* Variant: the loop does not stop at an error.
AfterAddRouteContinue(ok, i, n) == IF i + 1 < n THEN "routes" ELSE "returned"

\* agent.go:142-157: the loop returns at the first error and after the last
\* of the n entries.
AfterAddRoute(ok, i, n) == IF ok /\ i + 1 < n THEN "routes" ELSE "returned"

\* One entry addRoutesForAllowedIps tried, and whether it parsed and its
\* route was installed.
Tried(ip, ok) == [ip |-> ip, ok |-> ok]

\* agent.go:141-157: one turn of the loop, returning after the last one.
AddRoutesStep(c) ==
  /\ lease[c].pc = "routes"
  /\ LET allowed_ips == lease[c].ret.allowed_ips
         i == lease[c].rt.i
         ip == RangeEntry(allowed_ips, i)
         dst == ParseIPNet(ip)
         tried == lease[c].rt.tried
     IN
     IF ~dst.ok
     THEN /\ lease' = [lease EXCEPT
               ![c].pc = AfterAddRoute(FALSE, i, Len(allowed_ips)),
               ![c].rt = [st |-> "parse", i |-> i + 1,
                          tried |-> Append(tried, Tried(ip, FALSE))]]
          /\ routes' = routes
     ELSE \E ok \in BOOLEAN :
            /\ routes' = AddRoute(ok, routes, dst.net)
            /\ lease' = [lease EXCEPT
                 ![c].rt = [st |-> IF ~ok THEN "link"
                                  ELSE IF i + 1 = Len(allowed_ips) THEN "nil"
                                  ELSE "run",
                            i |-> i + 1,
                            tried |-> Append(tried, Tried(ip, ok))],
                 ![c].pc = AfterAddRoute(ok, i, Len(allowed_ips))]
  /\ UNCHANGED <<pc, err, agent, keyAtStart, steps, devKey, linkUp, addrs,
                 stopVars, sent>>

\* agent.go:179: what a call returned belongs to the caller, the agent keeps
\* none of it; the caller is done with it and is free to call again.
CallerDone(c) ==
  /\ lease[c].pc = "returned"
  /\ lease' = [lease EXCEPT ![c] = IdleCall]
  /\ UNCHANGED <<pc, err, agent, keyAtStart, steps, devVars, stopVars, sent>>

\* ---------------------------------------------------------- specification

Next ==
  \/ StartTunDevice
  \/ EnsureLinkUp
  \/ ReadKeys
  \/ GeneratePrivateKey
  \/ SetPrivKey
  \/ FetchKeys
  \/ Restart
  \/ StopCall
  \/ RunReceive
  \/ RunExit
  \/ \E c \in DOMAIN lease : LeaseRequest(c)
  \/ \E c \in DOMAIN lease : LeaseAddIp(c)
  \/ \E c \in DOMAIN lease : LeasePeer(c)
  \/ \E c \in DOMAIN lease : AddRoutesCall(c)
  \/ \E c \in DOMAIN lease : AddRoutesStep(c)
  \/ \E c \in DOMAIN lease : CallerDone(c)

Spec == Init /\ [][Next]_vars

\* ------------------------------------------- two callers of GetNewWgLease

\* The caller uses the agent from two goroutines.
TwoCallers == {"c1", "c2"}

\* What the lease server and the transport answer in the runs with two
\* callers: no answer, a rejection, or a lease of one allowed IP.
TwoCallerReplies ==
  {r \in Replies :
     /\ r.kind \in {"transport", "lease"}
     /\ r.status \in {0, 200, 404}
     /\ r.kind = "lease" => (r.body.AllowedIPs = <<"x">> /\ r.body.PubKey = "abc=")}

InitTwo ==
  /\ pc = "start"
  /\ err = "none"
  /\ agent = NewAgentStruct
  /\ devKey \in DeviceKeys
  /\ keyAtStart = devKey
  /\ steps = <<>>
  /\ linkUp = FALSE
  /\ addrs = {}
  /\ routes = {}
  /\ run = "none"
  /\ stopBuf = 0
  /\ stopBlocked = 0
  /\ stopReturned = 0
  /\ stopsReceived = 0
  /\ lease = [c \in TwoCallers |-> IdleCall]
  /\ sent = {}

NextTwo ==
  \/ StartTunDevice
  \/ EnsureLinkUp
  \/ ReadKeys
  \/ GeneratePrivateKey
  \/ SetPrivKey
  \/ FetchKeys
  \/ \E c \in DOMAIN lease : LeaseRequestFrom(c, TwoCallerReplies)
  \/ \E c \in DOMAIN lease : LeaseAddIp(c)
  \/ \E c \in DOMAIN lease : LeasePeer(c)
  \/ \E c \in DOMAIN lease : AddRoutesCall(c)
  \/ \E c \in DOMAIN lease : AddRoutesStep(c)
  \/ \E c \in DOMAIN lease : CallerDone(c)

SpecTwo == InitTwo /\ [][NextTwo]_vars

\* ----------------------------------------------------------------- claims

\* Every entry of a response parses: its IP and each allowed IP.
WellFormed(resp) ==
  /\ ParseIPNet(resp.IP).ok
  /\ \A i \in 1..Len(Split(resp.AllowedIPs, ",")) :
       ParseIPNet(Split(resp.AllowedIPs, ",")[i]).ok

Succeeded(call) == call.pc = "returned" /\ call.ret.err = "nil"

\* C1: a lease-server response whose status is not 200 makes GetNewWgLease
\* return an error, having made no address-installation call and no
\* route-installation call.
C1_RejectedLeaseTouchesNothing ==
  \A c \in DOMAIN lease :
    lease[c].status \notin {0, 200} =>
      /\ lease[c].pc = "returned"
      /\ lease[c].ret = ErrorReturn("status")
      /\ lease[c].calls = <<>>
      /\ lease[c].rt = NoRoutes

\* C1 witness: a call answered with status 500 has returned, on a device that
\* already carries an address.
C1_Witness ==
  \E c \in DOMAIN lease :
    /\ lease[c].status = 500
    /\ lease[c].pc = "returned"
    /\ addrs # {}

\* C2 as stated: when a GetNewWgLease call on a well-formed lease has
\* succeeded, a route is installed for every allowed-IP prefix of the lease.
C2_RoutesInstalledOnReturn ==
  \A c \in DOMAIN lease :
    (Succeeded(lease[c]) /\ WellFormed(lease[c].resp)) =>
      \A i \in 1..Len(lease[c].ret.allowed_ips) :
        ParseIPNet(lease[c].ret.allowed_ips[i]).net \in routes

\* C2 amended: GetNewWgLease itself leaves the route table as it is; a route
\* for every allowed-IP prefix of the returned list is installed once
\* addRoutesForAllowedIps, called with that list, has returned nil.
C2_RoutesInstalledByAddRoutes ==
  /\ [](\A c \in DOMAIN lease :
          (Succeeded(lease[c]) /\ lease[c].rt.st = "nil") =>
            \A i \in 1..Len(lease[c].ret.allowed_ips) :
              /\ ParseIPNet(lease[c].ret.allowed_ips[i]).ok
              /\ ParseIPNet(lease[c].ret.allowed_ips[i]).net \in routes)
  /\ [][\A c \in DOMAIN lease :
          (lease[c].pc \in {"idle", "addIp", "peer"} /\ lease'[c] # lease[c])
            => routes' = routes]_vars

\* C2 witness: a lease of two prefixes was returned with no route installed,
\* and later addRoutesForAllowedIps has installed both.
C2_Witness ==
  \E c \in DOMAIN lease :
    /\ Succeeded(lease[c])
    /\ lease[c].resp.AllowedIPs = <<"x", ",", "y">>
    /\ lease[c].rt.st = "nil"
    /\ routes = {"10.0.1.0/24", "10.0.2.0/24"}

\* C3: a GetNewWgLease call that has succeeded made exactly one address
\* installation, of the response's IP, which the device now carries, and
\* returned a peer configuration with the response's public key, endpoint and
\* allowed IPs and an empty pre-shared key, together with the allowed-IP list.
C3_LeaseApplied ==
  \A c \in DOMAIN lease :
    Succeeded(lease[c]) =>
      LET resp == lease[c].resp
          ret == lease[c].ret
          ip == ParseIPNet(resp.IP)
      IN
      /\ ip.ok
      /\ lease[c].calls = <<KernelCall("UpdateIP", ip.net, TRUE)>>
      /\ ip.net \in addrs
      /\ ret.peer.PublicKey = resp.PubKey
      /\ ret.peer.Endpoint = resp.Endpoint
      /\ ret.peer.PresharedKey = ""
      /\ ret.peer.AllowedIPs = Split(resp.AllowedIPs, ",")
      /\ ret.allowed_ips = Split(resp.AllowedIPs, ",")

\* C3 witness: the lease of the scenario (one address, two prefixes, the
\* peer "abc=" at 1.2.3.4:51820) has been returned.
C3_Witness ==
  \E c \in DOMAIN lease :
    /\ Succeeded(lease[c])
    /\ lease[c].resp = [IP |-> <<"y">>, AllowedIPs |-> <<"x", ",", "y">>,
                        PubKey |-> "abc=", Endpoint |-> "1.2.3.4:51820"]
    /\ addrs = {"10.0.2.0/24"}

\* The number of calls of op this NewAgent has made.
Calls(op) == Cardinality({i \in 1..Len(steps) : steps[i].op = op})

Constructed == pc = "done" /\ err = "nil"

\* C4: on a device whose private key is the sentinel when NewAgent runs, a
\* successful NewAgent has generated exactly one key and installed exactly
\* one (never more than one on the way), and after any successful NewAgent
\* the private key of the device, as read back into the agent, is not the
\* sentinel.
C4_SentinelKeyReplacedOnce ==
  /\ Calls("GeneratePrivateKey") <= 1
  /\ Calls("setPrivateKey") <= 1
  /\ Constructed =>
       /\ devKey # Sentinel
       /\ agent.privKey = devKey
       /\ keyAtStart = Sentinel =>
            /\ Calls("GeneratePrivateKey") = 1
            /\ Calls("setPrivateKey") = 1
            /\ devKey \in NewKeys

\* C4 witness: NewAgent has succeeded on a device that held the sentinel.
C4_Witness == Constructed /\ keyAtStart = Sentinel /\ devKey = "k2"

\* C5: on a device that holds a private key other than the sentinel, NewAgent
\* makes no key-generation call and no key-installation call, the device
\* keeps its key, and the pair on the agent after a successful NewAgent is the
\* pair of that key.
C5_ExistingKeyOnlyRead ==
  keyAtStart # Sentinel =>
    /\ Calls("GeneratePrivateKey") = 0
    /\ Calls("setPrivateKey") = 0
    /\ devKey = keyAtStart
    /\ Constructed =>
         /\ agent.privKey = keyAtStart
         /\ agent.pubKey = PubOf(keyAtStart)
         /\ Calls("getKeys") = 2

\* C5 witness: NewAgent has succeeded again on a device whose key an earlier
\* NewAgent generated.
C5_Witness == Constructed /\ keyAtStart \in NewKeys

\* C6: the body of every lease request sent carries the public key the agent
\* holds, which is the public key of the device's key pair, and not the
\* private key.
C6_RequestCarriesPublicKey ==
  \A body \in sent :
    /\ body = [pubKey |-> agent.pubKey]
    /\ body.pubKey = PubOf(devKey)
    /\ body.pubKey # agent.privKey
    /\ body.pubKey # devKey

\* C6 witness: a request was sent by an agent that generated its key.
C6_Witness == sent # {} /\ keyAtStart = Sentinel

\* The number of occurrences of c in s.
Count(s, c) == Cardinality({i \in 1..Len(s) : s[i] = c})

\* The entries of l with c between them.
RECURSIVE Join(_, _)
Join(l, c) ==
  IF Len(l) = 0 THEN <<>>
  ELSE IF Len(l) = 1 THEN l[1]
  ELSE l[1] \o <<c>> \o Join(Tail(l), c)

\* C7: the list a successful GetNewWgLease returns has one entry more than
\* the response's allowed-IP string has commas; the entries hold no comma and,
\* joined by commas in their order, give back the string: nothing is dropped,
\* trimmed or reordered.
C7_AllowedIPsSplitOnCommas ==
  \A c \in DOMAIN lease :
    Succeeded(lease[c]) =>
      LET s == lease[c].resp.AllowedIPs
          l == lease[c].ret.allowed_ips
      IN
      /\ Len(l) = Count(s, ",") + 1
      /\ \A i \in 1..Len(l) : Count(l[i], ",") = 0
      /\ Join(l, ",") = s

\* C7 witness: the string ", x" came back as an empty entry and " x".
C7_Witness ==
  \E c \in DOMAIN lease :
    /\ Succeeded(lease[c])
    /\ lease[c].resp.AllowedIPs = <<",", " ", "x">>
    /\ lease[c].ret.allowed_ips = << <<>>, <<" ", "x">> >>

\* C8: when Stop() has been called once on a successfully constructed agent,
\* either that call is still waiting in its send with the run loop there to
\* receive, and nothing received yet, or it has returned and the run loop
\* has received exactly one stop notification.
C8_OneStopOneNotification ==
  (Constructed /\ stopBlocked + stopReturned = 1) =>
    \/ stopBlocked = 1 /\ stopsReceived = 0 /\ run = "running"
    \/ stopReturned = 1 /\ stopsReceived = 1 /\ run \in {"stopping", "exited"}

\* C8 witness: the one Stop() call has returned.
C8_Witness ==
  Constructed /\ stopBlocked = 0 /\ stopReturned = 1 /\ stopsReceived = 1

\* C9: when startTunDevice has failed, NewAgent has returned an error after
\* that one call: no run loop, no stop channel or device on the agent, no
\* link-up, no key read, generated or installed.
C9_DeviceFailureEndsConstruction ==
  (Len(steps) >= 1 /\ ~steps[1].ok) =>
    /\ steps = <<Step("startTunDevice", FALSE)>>
    /\ pc = "done"
    /\ err = "DeviceStartError"
    /\ run = "none"
    /\ agent = NewAgentStruct

\* C9 witness: startTunDevice has failed on a device whose link an earlier
\* run had brought up.
C9_Witness == Len(steps) >= 1 /\ ~steps[1].ok /\ linkUp

\* The names of the calls made, in order.
Ops == [i \in 1..Len(steps) |-> steps[i].op]

IsPrefix(a, b) == Len(a) <= Len(b) /\ a = SubSeq(b, 1, Len(a))

\* C10: the calls of NewAgent come in the order device creation, link-up,
\* key ensure (read, then generate and install when needed, then read back);
\* a call is made only when every earlier one succeeded; and lease
\* negotiation takes place only after all of them succeeded.
C10_StepsInOrder ==
  /\ \/ IsPrefix(Ops, <<"startTunDevice", "EnsureLinkUp", "getKeys", "getKeys">>)
     \/ IsPrefix(Ops, <<"startTunDevice", "EnsureLinkUp", "getKeys",
                        "GeneratePrivateKey", "setPrivateKey", "getKeys">>)
  /\ \A i \in 1..Len(steps) : i < Len(steps) => steps[i].ok
  /\ (pc # "done") => \A i \in 1..Len(steps) : steps[i].ok
  /\ (sent # {} \/ \E c \in DOMAIN lease : lease[c] # IdleCall) =>
       /\ Constructed
       /\ Len(steps) \in {4, 6}
       /\ \A i \in 1..Len(steps) : steps[i].ok

\* C10 witness: a lease was negotiated, twice over, after the six calls of a
\* construction that generated a key.
C10_Witness ==
  /\ Len(steps) = 6
  /\ \E c \in DOMAIN lease : Succeeded(lease[c]) /\ Cardinality(addrs) = 2

\* A step of the running agent (not the start of a new process).
SameAgent == pc' = pc \/ pc # "done"

\* C11: Stop() returns in the very step in which the run loop takes its one
\* notification, and the run loop has then not exited: Stop() does not wait
\* for the exit.
C11_StopReturnsBeforeExit ==
  [][(SameAgent /\ stopReturned' # stopReturned) =>
       /\ stopReturned' = stopReturned + 1
       /\ stopsReceived' = stopsReceived + 1
       /\ run = "running"
       /\ run' = "stopping"]_vars

\* C11 witness: Stop() has returned and the run loop has not exited.
C11_Witness == Constructed /\ stopReturned = 1 /\ run = "stopping"

\* C12: once the run loop has taken a stop notification, exactly one Stop()
\* call has returned and exactly one notification was received, in every
\* later state: any other Stop() call stays in its send.
C12_SecondStopNeverReturns ==
  /\ stopReturned <= 1
  /\ stopsReceived <= 1
  /\ run \in {"stopping", "exited"} => stopReturned = 1 /\ stopsReceived = 1

\* C12 witness: the run loop has exited after the first Stop(), and a second
\* Stop() call is waiting in its send.
C12_Witness ==
  Constructed /\ run = "exited" /\ stopReturned = 1 /\ stopBlocked = 1

\* C13: an agent has launched at most one run task, and only after
\* startTunDevice succeeded; NewAgent goes on and returns while the task
\* runs; the task ends only after it received a stop notification sent by
\* Stop().
C13_OneRunTask ==
  /\ Calls("startTunDevice") <= 1
  /\ run # "none" => (Len(steps) >= 1 /\ steps[1] = Step("startTunDevice", TRUE))
  /\ (Len(steps) >= 1 /\ steps[1].ok /\ stopsReceived = 0) => run = "running"
  /\ run \in {"stopping", "exited"} =>
       (stopsReceived = 1 /\ stopReturned + stopBuf >= 1 /\ pc = "done")

\* C13 witness: NewAgent has returned and a lease was negotiated while the
\* run task runs.
C13_Witness == Constructed /\ run = "running" /\ sent # {}

\* C18: whenever NewAgent has returned nil, the keys on the agent are the
\* device's pair, read back by a last successful getKeys, whether the key
\* was generated or was already on the device.
C18_AgentKeysAreDeviceKeys ==
  Constructed =>
    /\ agent.privKey = devKey
    /\ agent.pubKey = PubOf(devKey)
    /\ steps[Len(steps)] = Step("getKeys", TRUE)
    /\ (keyAtStart # Sentinel => devKey = keyAtStart)
    /\ (keyAtStart = Sentinel => devKey \in NewKeys)

\* C18 witness: NewAgent returned nil on the path that generated a key.
C18_Witness ==
  Constructed /\ keyAtStart = Sentinel /\ Calls("setPrivateKey") = 1

\* No run loop can receive from the agent's stop channel: the device was
\* not created, or the run loop has taken a notification.
NoReceiver ==
  /\ pc = "done"
  /\ ~steps[1].ok \/ run \in {"stopping", "exited"}

\* C19: Stop() returns only in a step in which a running loop receives from
\* the agent's channel, so never before its notification is taken; while no
\* receiver is live none appears and no Stop() call returns.
C19_StopIsRendezvous ==
  /\ [](stopReturned <= stopsReceived)
  /\ [][(SameAgent /\ stopReturned' > stopReturned) =>
          (agent.stop /\ steps[1].ok /\ run = "running"
             /\ stopsReceived' > stopsReceived)]_vars
  /\ [][(SameAgent /\ NoReceiver) =>
          (NoReceiver' /\ stopReturned' = stopReturned)]_vars

\* C19 witness: Stop() was called on an agent whose device creation failed
\* and is waiting in its send.
C19_Witness ==
  pc = "done" /\ err = "DeviceStartError" /\ ~agent.stop /\ stopBlocked >= 1

\* C20: when NewAgent has returned an error after startTunDevice succeeded,
\* the agent holds its stop channel and its device, no notification was
\* sent by NewAgent, and the run loop runs until a Stop() call stops it.
C20_FailedAgentKeepsRunLoop ==
  (pc = "done" /\ err # "nil" /\ steps[1].ok) =>
    /\ err \in {"LinkStateError", "KeyRetrievalError", "KeyGenerationError",
                "KeyInstallError"}
    /\ agent.stop
    /\ agent.tundev
    /\ stopsReceived = stopReturned
    /\ (stopReturned = 0 => run = "running")

\* C20 witness: NewAgent failed at the key installation, no Stop() was
\* called and the run loop is running.
C20_Witness ==
  /\ pc = "done"
  /\ err = "KeyInstallError"
  /\ run = "running"
  /\ stopBlocked + stopReturned = 0

\* The address GetNewWgLease assigned in a call: the one successful UpdateIP.
Assigned(call) ==
  <<KernelCall("UpdateIP", ParseIPNet(call.resp.IP).net, TRUE)>>

\* C14: when newPeerConfig fails after the address was assigned, or the
\* installation of the routes of the lease fails, the call made one
\* successful UpdateIP, the error is what is returned, and the address is
\* still on the device: the failing step takes no address off the device.
C14_NoRollbackOfAddress ==
  /\ [](\A c \in DOMAIN lease :
          (lease[c].ret.err = "peer" \/ lease[c].rt.st \in {"parse", "link"}) =>
            /\ lease[c].pc = "returned"
            /\ lease[c].calls = Assigned(lease[c])
            /\ ParseIPNet(lease[c].resp.IP).net \in addrs
            /\ lease[c].ret.err = "peer" => lease[c].ret = ErrorReturn("peer"))
  /\ [][\A c \in DOMAIN lease :
          (lease[c].pc \in {"peer", "routes"} /\ lease'[c].pc = "returned") =>
            addrs' = addrs]_vars

\* C14 witness: newPeerConfig failed and the address of the lease is on the
\* device.
C14_Witness ==
  \E c \in DOMAIN lease :
    /\ lease[c].pc = "returned"
    /\ lease[c].ret.err = "peer"
    /\ lease[c].resp.IP = <<"y">>
    /\ "10.0.2.0/24" \in addrs

\* The lease server granted the lease of a call.
Granted(call) ==
  /\ call.pc # "idle"
  /\ call.ret.err \notin {"transport", "status", "read", "decode"}

\* C15: once a lease was granted whose IP does not parse, the call returns
\* the parse error with a zero peer and no list, having made no kernel
\* call; the returning step changes neither the addresses nor the routes.
C15_BadAddressTouchesNothing ==
  /\ [](\A c \in DOMAIN lease :
          (Granted(lease[c]) /\ ~ParseIPNet(lease[c].resp.IP).ok
             /\ lease[c].pc # "addIp") =>
            /\ lease[c].pc = "returned"
            /\ lease[c].status = 200
            /\ lease[c].ret = ErrorReturn("parse")
            /\ lease[c].calls = <<>>
            /\ lease[c].rt = NoRoutes)
  /\ [][\A c \in DOMAIN lease :
          (lease[c].pc = "addIp" /\ ~ParseIPNet(lease[c].resp.IP).ok
             /\ lease'[c] # lease[c]) =>
            (addrs' = addrs /\ routes' = routes)]_vars

\* C15 witness: a granted lease with an unparsable IP and a parsable list of
\* allowed IPs was returned as a parse error.
C15_Witness ==
  \E c \in DOMAIN lease :
    /\ lease[c].ret.err = "parse"
    /\ lease[c].status = 200
    /\ lease[c].resp.AllowedIPs = <<"x", ",", "y">>

\* C16: the entries addRoutesForAllowedIps tried are the first entries of
\* the list in list order; every one before the last tried succeeded; after
\* a failure the call has returned with the failing entry as the last one
\* tried, and the routes of the earlier entries are installed.
C16_RoutesInOrderUntilFailure ==
  \A c \in DOMAIN lease :
    LET a == lease[c].ret.allowed_ips
        t == lease[c].rt.tried
    IN
    lease[c].rt.st # "none" =>
      /\ Len(t) <= Len(a)
      /\ Len(t) = lease[c].rt.i
      /\ \A k \in 1..Len(t) :
           /\ t[k].ip = a[k]
           /\ k < Len(t) => t[k].ok
           /\ t[k].ok => (ParseIPNet(a[k]).ok /\ ParseIPNet(a[k]).net \in routes)
      /\ lease[c].rt.st \in {"parse", "link"} =>
           (lease[c].pc = "returned" /\ Len(t) >= 1 /\ ~t[Len(t)].ok)
      /\ lease[c].rt.st = "parse" => ~ParseIPNet(a[Len(t)]).ok
      /\ lease[c].rt.st = "nil" =>
           (lease[c].pc = "returned" /\ Len(t) = Len(a) /\ t[Len(t)].ok)
      /\ lease[c].rt.st = "run" => (lease[c].pc = "routes" /\ Len(t) < Len(a))

\* C16 witness: the first of two entries does not parse and the second one
\* was not tried.
C16_Witness ==
  \E c \in DOMAIN lease :
    /\ lease[c].rt.st = "parse"
    /\ lease[c].ret.allowed_ips = << <<" ", "x">>, <<"y">> >>
    /\ lease[c].rt.tried = << Tried(<<" ", "x">>, FALSE) >>
    /\ "10.0.2.0/24" \notin routes

\* C17: with two callers, a call that has not started can send its request
\* and a call that holds a lease can install its address whatever the other
\* call is doing, and a step of one call changes nothing of the other call.
C17_CallsNotSerialized ==
  /\ [](\A c \in DOMAIN lease :
          /\ (Usable /\ lease[c].pc = "idle") =>
               ENABLED LeaseRequestFrom(c, TwoCallerReplies)
          /\ lease[c].pc = "addIp" => ENABLED LeaseAddIp(c))
  /\ [][\A c, d \in DOMAIN lease :
          (c # d /\ lease'[c] # lease[c]) => lease'[d] = lease[d]]_vars

\* C17 witness: two calls in progress at once; the lease of c was granted
\* after the lease of d, and the address of d was installed after the
\* address of c: the address installed last is not the one granted last.
C17_Witness ==
  \E c, d \in DOMAIN lease :
    /\ c # d
    /\ d \in lease[c].grantedAfter
    /\ c \in lease[d].installedAfter
    /\ lease[c].resp.IP = <<"x">>
    /\ lease[d].resp.IP = <<"y">>
    /\ addrs = {"10.0.1.0/24", "10.0.2.0/24"}

====
